---- MODULE Spec2Model ----
(***************************************************************************)
(* A model of the API that the `statemachine!` procedural macro generates  *)
(* (src/src/lib.rs).  The macro input (a Machine declaration) is chosen in *)
(* Init; the generated entry points (init, the event operations, restore,  *)
(* retrieve) are the actions.  Every `.await` on an observer / retriever   *)
(* hook is one step, so a call is a short sequence of steps.               *)
(***************************************************************************)
EXTENDS Integers, Sequences, FiniteSets, TLC

(* ------------------------------------------------------------------ *)
(* Option<T> and Result<T, E>                                          *)
(* ------------------------------------------------------------------ *)
None == <<>>
Some(x) == <<x>>
IsSome(o) == Len(o) = 1
IsNone(o) == Len(o) = 0
Unwrap(o) == o[1]

Ok == [ok |-> TRUE, err |-> <<>>]
Err(e) == [ok |-> FALSE, err |-> e]

(* ------------------------------------------------------------------ *)
(* Bounds and input domains                                            *)
(* ------------------------------------------------------------------ *)
\* number of API calls made on one slot
MaxCalls == 3

\* number of those calls that create an instance (init, restore, retrieve)
MaxCreates == 2

\* a slot is one caller: its context, its observer log, the instance it holds
Slots == {1, 2}
\* the slots that make calls under Spec
Solo == {1}

Ids == {"", "o1"}
Errors == {"e1", "e2"}
Vals == {1, 2}
\* an observer that keeps every default hook body, and one that overrides them
Observers == {"default", "overriding"}

(* ------------------------------------------------------------------ *)
(* The macro input: Machine / StateDefinition / StateTransition        *)
(* ------------------------------------------------------------------ *)
StateTransition(event, next_state) == [event |-> event, next_state |-> next_state]

StateDefinition(init, name, associated_data_type, transitions) ==
    [init |-> init, name |-> name,
     associated_data_type |-> associated_data_type, transitions |-> transitions]

\* Order : Cart { init Created { pay => Paid }, Paid : Receipt { ship => Shipped }, Shipped { } }
Order ==
    [name |-> "Order", shared_data_type |-> Some("Cart"),
     states |-> << StateDefinition(TRUE, "Created", None, << StateTransition("pay", "Paid") >>),
                   StateDefinition(FALSE, "Paid", Some("Receipt"), << StateTransition("ship", "Shipped") >>),
                   StateDefinition(FALSE, "Shipped", None, << >>) >>]

\* Door { init Closed { open => Open, lock => Locked }, init Open : Who { close => Closed, hold => Open },
\*        Locked : Key { unlock => Closed }, Broken { } }
Door ==
    [name |-> "Door", shared_data_type |-> None,
     states |-> << StateDefinition(TRUE, "Closed", None,
                       << StateTransition("open", "Open"), StateTransition("lock", "Locked") >>),
                   StateDefinition(TRUE, "Open", Some("Who"),
                       << StateTransition("close", "Closed"), StateTransition("hold", "Open") >>),
                   StateDefinition(FALSE, "Locked", Some("Key"), << StateTransition("unlock", "Closed") >>),
                   StateDefinition(FALSE, "Broken", None, << >>) >>]

\* Task : Meta { init Draft : Body { edit => Draft, submit => Done }, Done { reopen => Draft } }
Task ==
    [name |-> "Task", shared_data_type |-> Some("Meta"),
     states |-> << StateDefinition(TRUE, "Draft", Some("Body"),
                       << StateTransition("edit", "Draft"), StateTransition("submit", "Done") >>),
                   StateDefinition(FALSE, "Done", None, << StateTransition("reopen", "Draft") >>) >>]

\* Job { Queued { start => Running }, Running : Pid { finish => Queued } }   (no initial state)
Job ==
    [name |-> "Job", shared_data_type |-> None,
     states |-> << StateDefinition(FALSE, "Queued", None, << StateTransition("start", "Running") >>),
                   StateDefinition(FALSE, "Running", Some("Pid"), << StateTransition("finish", "Queued") >>) >>]

Machines == {Order, Door, Task, Job}

(* ------------------------------------------------------------------ *)
(* Semantic model derived from the declaration                         *)
(* ------------------------------------------------------------------ *)
StateDefs(m) == {m.states[i] : i \in DOMAIN m.states}

init_states(m) == {x.name : x \in {y \in StateDefs(m) : y.init}}

\* HashMap state name -> associated data type; get() is Some(dt) or None
state_data_types(m, name) ==
    IF \E x \in StateDefs(m) : x.name = name /\ IsSome(x.associated_data_type)
    THEN (CHOOSE x \in StateDefs(m) : x.name = name /\ IsSome(x.associated_data_type)).associated_data_type
    ELSE None

state_names(m) == [i \in DOMAIN m.states |-> m.states[i].name]

\* Ident::to_string().to_case(Case::Snake) on the state names used here
to_case_snake(name) ==
    CASE name = "Created" -> "created" [] name = "Paid"    -> "paid"
      [] name = "Shipped" -> "shipped" [] name = "Closed"  -> "closed"
      [] name = "Open"    -> "open"    [] name = "Locked"  -> "locked"
      [] name = "Broken"  -> "broken"  [] name = "Draft"   -> "draft"
      [] name = "Done"    -> "done"    [] name = "Queued"  -> "queued"
      [] name = "Running" -> "running"

enter_fn_name(name) == <<"on_enter", to_case_snake(name)>>
exit_fn_name(name) == <<"on_exit", to_case_snake(name)>>

(* ------------------------------------------------------------------ *)
(* Run-time values                                                     *)
(* ------------------------------------------------------------------ *)
\* a value of the declared data type ty
Value(ty, n) == [ty |-> ty, n |-> n]
ValuesOf(ty) == {Value(ty, n) : n \in Vals}
\* the values the caller may pass for an optional declared type
ArgsOf(oty) == IF IsSome(oty) THEN {Some(v) : v \in ValuesOf(Unwrap(oty))} ELSE {None}

\* pub struct #state_name { data: #dt }  /  pub struct #state_name {}
state_new(name, data) == [data |-> data, struct |-> name]

\* #parent_name::<#state_name, S, T>::new(observer, id, state, data)
parent_new(marker, id, state, data) ==
    [data |-> data, marker |-> marker, id |-> id, state |-> state, variant |-> None]

\* the `from` argument of on_enter_<state>: State for a non-initial state,
\* Option<State> for a state flagged init
FromPlain(tag) == [tag |-> Some(tag), optional |-> FALSE]
FromSome(tag) == [tag |-> Some(tag), optional |-> TRUE]
FromNone == [tag |-> None, optional |-> TRUE]

\* pub fn id(&self) -> &str
id(inst) == inst.id

VARIABLES
    machine,    \* the declaration the macro was applied to
    observer,   \* observer[s]: the Observer implementation the caller of slot s passes
    live,       \* live[s]: Option of the instance the caller of slot s holds
    pc,         \* pc[s]: the hook the call in progress awaits next, or "idle"
    call,       \* call[s]: the current (or last) call and its arguments
    calllog,    \* calllog[s]: the observer hooks invoked by that call, with arguments
    hist,       \* hist[s]: names of all observer hooks ever invoked on slot s
    rlog,       \* rlog[s]: the calls of Retriever::on_retrieve made by that call: [id, ret]
    result,     \* result[s]: Option of the result the last call returned
    ncalls,     \* ncalls[s]: calls made so far
    ncreates,   \* ncreates[s]: init, restore and retrieve calls made so far
    origin      \* origin[s]: how the instance of slot s (held, or moved into the call in
                \* progress) first came to be: Option of [by, id, data]

vars == <<machine, observer, live, pc, call, calllog, hist, rlog, result, ncalls, ncreates, origin>>

NoCall == [op |-> "none"]

Init ==
    /\ machine \in Machines
    /\ observer \in {o \in [Slots -> Observers] : \A s \in Slots \ Solo : o[s] = "default"}
    /\ live = [s \in Slots |-> None]
    /\ pc = [s \in Slots |-> "idle"]
    /\ call = [s \in Slots |-> NoCall]
    /\ calllog = [s \in Slots |-> <<>>]
    /\ hist = [s \in Slots |-> <<>>]
    /\ rlog = [s \in Slots |-> <<>>]
    /\ result = [s \in Slots |-> None]
    /\ ncalls = [s \in Slots |-> 0]
    /\ ncreates = [s \in Slots |-> 0]
    /\ origin = [s \in Slots |-> None]

\* a call begins: the caller gives up what it held (`held` is what stays in its hands)
Begin(s, c, next_pc, held) ==
    /\ pc[s] = "idle"
    /\ ncalls[s] < MaxCalls
    /\ ncalls' = [ncalls EXCEPT ![s] = @ + 1]
    /\ c.op /= "transition" => ncreates[s] < MaxCreates
    /\ ncreates' = [ncreates EXCEPT ![s] = IF c.op = "transition" THEN @ ELSE @ + 1]
    /\ call' = [call EXCEPT ![s] = c]
    /\ pc' = [pc EXCEPT ![s] = next_pc]
    /\ live' = [live EXCEPT ![s] = held]
    /\ calllog' = [calllog EXCEPT ![s] = <<>>]
    /\ rlog' = [rlog EXCEPT ![s] = <<>>]
    /\ result' = [result EXCEPT ![s] = None]
    /\ origin' = [origin EXCEPT ![s] = IF c.op = "transition" THEN @ ELSE None]
    /\ UNCHANGED <<machine, observer, hist>>

\* the observer is invoked: the hook is recorded
Invoke(s, rec) ==
    /\ calllog' = [calllog EXCEPT ![s] = Append(@, rec)]
    /\ hist' = [hist EXCEPT ![s] = Append(@, rec.hook)]

\* the record of a hook invocation, completed with what the hook answered
WithRet(rec, r) == [f \in DOMAIN rec \cup {"ret"} |-> IF f = "ret" THEN r ELSE rec[f]]

\* mutant: the instance a call hands back is kept in one place shared by all callers
Return_into_shared_place(s, r, held) ==
    /\ result' = [result EXCEPT ![s] = Some(r)]
    /\ live' = [t \in Slots |-> held]
    /\ pc' = [pc EXCEPT ![s] = "idle"]

\* the call returns r, leaving `held` in the caller's hands
Return(s, r, held) ==
    /\ result' = [result EXCEPT ![s] = Some(r)]
    /\ live' = [live EXCEPT ![s] = held]
    /\ pc' = [pc EXCEPT ![s] = "idle"]

\* what an observer hook returning Result<(), Error> may answer
HookOutcomes == {Ok} \cup {Err(e) : e \in Errors}

\* the default body of on_transition, on_enter_<state> and on_exit_<state>: Ok(())
Observer_default == Ok

\* what a hook of the observer obs answers: the default body, or whatever an override does
hook_outcomes(obs) == IF obs = "default" THEN {Observer_default} ELSE HookOutcomes

(* ------------------------------------------------------------------ *)
(* init                                                                *)
(* ------------------------------------------------------------------ *)
\* mutant: an init entry point is generated for every state, flagged or not
InitCall_every_state(s) ==
    \E x \in StateDefs(machine) :
    \E i \in {None} \cup {Some(j) : j \in Ids} :
    \E data \in ArgsOf(machine.shared_data_type) :
    \E state_data \in ArgsOf(x.associated_data_type) :
        Begin(s, [data |-> data, id |-> i, state |-> x.name, op |-> "init",
                  state_data |-> state_data, new_id |-> None],
              "on_init", None)

\* pub async fn init(ctx, observer, id: Option<String>, [data], [state_data])
InitCall(s) ==
    \E x \in {y \in StateDefs(machine) : y.init} :
    \E i \in {None} \cup {Some(j) : j \in Ids} :
    \E data \in ArgsOf(machine.shared_data_type) :
    \E state_data \in ArgsOf(x.associated_data_type) :
        Begin(s, [data |-> data, id |-> i, state |-> x.name, op |-> "init",
                  state_data |-> state_data, new_id |-> None],
              "on_init", None)

\* what on_init may answer: an error, or Ok(Option<String>)
OnInitOutcomes ==
    {[ok |-> FALSE, err |-> e, id |-> None] : e \in Errors}
        \cup {[ok |-> TRUE, err |-> <<>>, id |-> i] : i \in {None} \cup {Some(j) : j \in Ids}}

\* mutant: the default on_init forgets the id
Observer_on_init_absent(supplied) == [ok |-> TRUE, err |-> <<>>, id |-> None]

\* the default body of on_init: Ok(id)
Observer_on_init(supplied) == [ok |-> TRUE, err |-> <<>>, id |-> supplied]

\* what on_init of the observer obs answers when given `supplied`
on_init_outcomes(obs, supplied) ==
    IF obs = "default" THEN {Observer_on_init(supplied)} ELSE OnInitOutcomes

\* mutant: init goes on with the caller's id when on_init failed
init_id_ignores_error(supplied, r) ==
    IF ~r.ok THEN [id |-> IF IsSome(supplied) THEN supplied ELSE Some(""), res |-> Ok]
    ELSE IF IsNone(r.id) THEN [id |-> None, res |-> Err(<<"EmptyId">>)]
    ELSE [id |-> r.id, res |-> Ok]

\* mutant: an observer error is swallowed into EmptyId
init_id_swallows_error(supplied, r) ==
    IF ~r.ok \/ IsNone(r.id) THEN [id |-> None, res |-> Err(<<"EmptyId">>)]
    ELSE [id |-> r.id, res |-> Ok]

\* mutant: the id the caller supplied wins over the one on_init returned
init_id_keeps_supplied(supplied, r) ==
    IF ~r.ok THEN [id |-> None, res |-> Err(<<"ObserverError", r.err>>)]
    ELSE IF IsSome(supplied) THEN [id |-> supplied, res |-> Ok]
    ELSE IF IsNone(r.id) THEN [id |-> None, res |-> Err(<<"EmptyId">>)]
    ELSE [id |-> r.id, res |-> Ok]

\* let id = observer.on_init(ctx, id, ...).await.map_err(|e| InitError::ObserverError(e))?.ok_or(InitError::EmptyId)?;
\* `supplied` is the caller's id, moved into the hook; r is what the hook answered
init_id(supplied, r) ==
    IF ~r.ok THEN [id |-> None, res |-> Err(<<"ObserverError", r.err>>)]
    ELSE IF IsNone(r.id) THEN [id |-> None, res |-> Err(<<"EmptyId">>)]
    ELSE [id |-> r.id, res |-> Ok]

\* let id = observer.on_init(ctx, id, State::#state_name, Some(&data)|None, Some(&state_data)|None).await ...
OnInit(s) ==
    /\ pc[s] = "on_init"
    /\ \E r \in on_init_outcomes(observer[s], call[s].id) :
        LET c == call[s]
            got == init_id(c.id, r)
        IN  /\ Invoke(s, [data |-> c.data, id |-> c.id, hook |-> <<"on_init">>,
                          state_data |-> c.state_data, to |-> c.state, ret |-> r])
            /\ IF got.res.ok
               THEN /\ call' = [call EXCEPT ![s].new_id = got.id]
                    /\ pc' = [pc EXCEPT ![s] = "init_enter"]
                    /\ UNCHANGED <<live, result>>
               ELSE /\ Return(s, got.res, None)
                    /\ UNCHANGED call
    /\ UNCHANGED <<machine, observer, rlog, ncalls, ncreates, origin>>

\* observer.#enter_fn_name(ctx, &id, None, [&data], [&state_data]).await...?; Ok(Self::new(...))
InitEnter(s) ==
    /\ pc[s] = "init_enter"
    /\ \E r \in hook_outcomes(observer[s]) :
        LET c == call[s]
            new_id == Unwrap(c.new_id)
        IN  /\ Invoke(s, [data |-> c.data, id |-> new_id, hook |-> enter_fn_name(c.state),
                          state_data |-> c.state_data, ret |-> r, from |-> FromNone])
            /\ IF r.ok
               THEN /\ Return(s, Ok, Some(parent_new(c.state, new_id,
                                                     state_new(c.state, c.state_data), c.data)))
                    /\ origin' = [origin EXCEPT ![s] = Some([data |-> c.data, id |-> new_id, by |-> "init"])]
               ELSE /\ Return(s, Err(<<"ObserverError", r.err>>), None)
                    /\ UNCHANGED origin
    /\ UNCHANGED <<machine, observer, call, rlog, ncalls, ncreates>>

(* ------------------------------------------------------------------ *)
(* transitions                                                         *)
(* ------------------------------------------------------------------ *)
\* mutant: the operation is attached to the type of the edge's target state
TransitionImpls_on_target(m) ==
    UNION {{[event |-> x.transitions[k].event, self |-> x.transitions[k].next_state,
             next |-> x.transitions[k].next_state,
             arg |-> state_data_types(m, x.transitions[k].next_state)]
            : k \in DOMAIN x.transitions} : x \in StateDefs(m)}

\* one `impl #parent_name<#state_name, S, T> { pub async fn #event(mut self, ctx, [data: #a]) }`
\* per declared edge; arg is state_data_types.get(next_state_name)
TransitionImpls(m) ==
    UNION {{[event |-> x.transitions[k].event, self |-> x.name,
             next |-> x.transitions[k].next_state,
             arg |-> state_data_types(m, x.transitions[k].next_state)]
            : k \in DOMAIN x.transitions} : x \in StateDefs(m)}

\* mutant: the exit hook is awaited before on_transition
transition_body_exit_first == <<"on_exit", "on_transition", "on_enter">>

\* the statements of an event operation, in the order the body runs them
transition_body == <<"on_transition", "on_exit", "on_enter">>

\* the statement after stmt, or "new" (construct the instance) after the last
after(stmt) ==
    LET k == CHOOSE j \in DOMAIN transition_body : transition_body[j] = stmt
    IN  IF k < Len(transition_body) THEN transition_body[k + 1] ELSE "new"

\* Some(&self.data) / &self.data when the machine declares shared data, else nothing
shared_arg(m, inst) == IF IsSome(m.shared_data_type) THEN inst.data ELSE None

\* mutant: on_transition is handed the state data the source held before the transition
on_transition_call_source_data(m, c) ==
    [data |-> shared_arg(m, c.self), id |-> c.self.id, hook |-> <<"on_transition">>,
     state_data |-> IF IsSome(state_data_types(m, c.state)) THEN c.self.state.data ELSE None,
     to |-> c.next,
     from |-> c.state]

\* self.observer.on_transition(ctx, &self.id, State::#state_name, State::#next_state_name,
\*                             Some(&self.data) | None, Some(&data) | None)
on_transition_call(m, c) ==
    [data |-> shared_arg(m, c.self), id |-> c.self.id, hook |-> <<"on_transition">>, state_data |-> IF IsSome(state_data_types(m, c.next)) THEN c.data ELSE None,
     to |-> c.next,
     from |-> c.state]

\* self.observer.#exit_fn_name(ctx, &self.id, State::#next_state_name, [&self.data], [&self.state.data])
exit_call(m, c) ==
    [data |-> shared_arg(m, c.self), id |-> c.self.id, hook |-> exit_fn_name(c.state),
     state_data |-> IF IsSome(state_data_types(m, c.state)) THEN c.self.state.data ELSE None,
     to |-> c.next]

\* mutant: the source tag is passed plain whatever the target
enter_from_type_plain(m, c) == FromPlain(c.state)

\* `Some(State::#state_name)` when the target is flagged init, else `State::#state_name`
enter_from_type(m, c) ==
    IF c.next \in init_states(m) THEN FromSome(c.state) ELSE FromPlain(c.state)

\* self.observer.#enter_fn_name(ctx, &self.id, #enter_from_type, [&self.data], [&data])
enter_call(m, c) ==
    [data |-> shared_arg(m, c.self), id |-> c.self.id, hook |-> enter_fn_name(c.next),
     state_data |-> IF IsSome(state_data_types(m, c.next)) THEN c.data ELSE None,
     from |-> enter_from_type(m, c)]

\* mutant: the new instance keeps the per-state value of the source
transition_new_keeps_state(m, c) ==
    parent_new(c.next, c.self.id, state_new(c.next, c.self.state.data), shared_arg(m, c.self))

\* Ok(#parent_name::<#next_state_name, S, T>::new(self.observer, self.id, #next_state_name::new([data]), [self.data]))
transition_new(m, c) ==
    parent_new(c.next, c.self.id,
               state_new(c.next, IF IsSome(state_data_types(m, c.next)) THEN c.data ELSE None),
               shared_arg(m, c.self))

\* mutant: the operation borrows the instance (`&mut self`) instead of taking it
CallEvent_borrowing(s) ==
    /\ IsSome(live[s])
    /\ \E impl \in {i \in TransitionImpls(machine) : i.self = Unwrap(live[s]).marker} :
       \E data \in ArgsOf(impl.arg) :
            Begin(s, [event |-> impl.event, data |-> data, state |-> impl.self,
                      op |-> "transition", self |-> Unwrap(live[s]), next |-> impl.next],
                  transition_body[1], live[s])

\* instance.#event(ctx, [data]): `mut self` moves the instance into the call
CallEvent(s) ==
    /\ IsSome(live[s])
    /\ \E impl \in {i \in TransitionImpls(machine) : i.self = Unwrap(live[s]).marker} :
       \E data \in ArgsOf(impl.arg) :
            Begin(s, [event |-> impl.event, data |-> data, state |-> impl.self,
                      op |-> "transition", self |-> Unwrap(live[s]), next |-> impl.next],
                  transition_body[1], None)

\* mutant: the error of a hook is dropped unless the hook is the last one
HookStep_without_question_mark(s, stmt, rec) ==
    /\ pc[s] = stmt
    /\ \E r \in hook_outcomes(observer[s]) :
        /\ Invoke(s, WithRet(rec, r))
        /\ IF after(stmt) /= "new"
           THEN /\ pc' = [pc EXCEPT ![s] = after(stmt)]
                /\ UNCHANGED <<live, result, origin>>
           ELSE IF ~r.ok THEN /\ Return(s, Err(<<"ObserverError", r.err>>), None)
                              /\ origin' = [origin EXCEPT ![s] = None]
                ELSE /\ Return(s, Ok, Some(transition_new(machine, call[s])))
                     /\ UNCHANGED origin
    /\ UNCHANGED <<machine, observer, call, rlog, ncalls, ncreates>>

\* one hook of the event operation is awaited: `.await.map_err(|e| TransitionError::ObserverError(e))?`
HookStep(s, stmt, rec) ==
    /\ pc[s] = stmt
    /\ \E r \in hook_outcomes(observer[s]) :
        /\ Invoke(s, WithRet(rec, r))
        /\ IF ~r.ok THEN /\ Return(s, Err(<<"ObserverError", r.err>>), None)
                          /\ origin' = [origin EXCEPT ![s] = None]
           ELSE IF after(stmt) = "new"
                THEN /\ Return(s, Ok, Some(transition_new(machine, call[s])))
                     /\ UNCHANGED origin
                ELSE /\ pc' = [pc EXCEPT ![s] = after(stmt)]
                     /\ UNCHANGED <<live, result, origin>>
    /\ UNCHANGED <<machine, observer, call, rlog, ncalls, ncreates>>

OnTransition(s) == HookStep(s, "on_transition", on_transition_call(machine, call[s]))

OnExit(s) == HookStep(s, "on_exit", exit_call(machine, call[s]))

OnEnter(s) == HookStep(s, "on_enter", enter_call(machine, call[s]))

(* ------------------------------------------------------------------ *)
(* restore / retrieve                                                  *)
(* ------------------------------------------------------------------ *)
\* a serde_json::Value, by the type whose serialized form it has ("Null": of none) and its content
Json(shape, n) == [n |-> n, shape |-> shape]

\* pub enum Encoded { Json(serde_json::Value) }
Encoded_Json(value) == [Json |-> value]

\* the serialized form of a value of a declared (Serialize) data type
to_value(v) == Json(v.ty, v.n)

\* what an observer stores of an optional payload: Option<Encoded>
encode(o) == IF IsSome(o) THEN Some(Encoded_Json(to_value(Unwrap(o)))) ELSE None

\* mutant: the tag is rendered the way the hook names are
State_to_string_snake(m, tag) == to_case_snake(tag)

\* impl State { pub fn to_string(&self) }: match self { State::#state_names => String::from(stringify!(#state_names)) }
State_to_string(m, tag) ==
    LET names == state_names(m)
    IN  names[CHOOSE i \in DOMAIN names : names[i] = tag]

\* mutant: every JSON value decodes
from_value_lenient(ty, data) == Some(Value(ty, data.n))

\* serde_json::from_value::<ty>(data).ok(): Some(decoded) when data has the form of a ty
from_value(ty, data) == IF data.shape = ty THEN Some(Value(ty, data.n)) ELSE None

\* match enc { Encoded::Json(data) => serde_json::from_value(data).ok().ok_or(RestoreError::InvalidData)? }
decode(ty, enc) == from_value(ty, enc.Json)

\* #wrapped_type::#state_name(#parent_name::<#state_name, S, T>::new(observer, id, #state_name::new([state_d]), [shared_d]))
\* mutant: the per-state value is built without its payload
wrapped_new_without_payload(name, rid, state_d, shared_d) ==
    [parent_new(name, rid, state_new(name, None), shared_d) EXCEPT !.variant = Some(name)]

wrapped_new(name, rid, state_d, shared_d) ==
    [parent_new(name, rid, state_new(name, state_d), shared_d) EXCEPT !.variant = Some(name)]

Restored(w) == [inst |-> Some(w), res |-> Ok]
Failed(e) == [inst |-> None, res |-> Err(e)]

\* mutant: a missing payload is reported as InvalidData
required_as_invalid(enc) == IF IsNone(enc) THEN Err(<<"InvalidData">>) ELSE Ok

\* enc.ok_or(RestoreError::EmptyData)?
required(enc) == IF IsNone(enc) THEN Err(<<"EmptyData">>) ELSE Ok

\* mutant: a payload nobody declared is ignored
undeclared_ignored(enc) == Ok

\* if enc.is_some() { return Err(RestoreError::UnexpectedData) }
undeclared(enc) == IF IsSome(enc) THEN Err(<<"UnexpectedData">>) ELSE Ok

\* mutant: a payload that does not decode is reported as EmptyData
decoded_as_empty(d) == IF IsNone(d) THEN Err(<<"EmptyData">>) ELSE Ok

\* serde_json::from_value(data).ok().ok_or(RestoreError::InvalidData)?
decoded(d) == IF IsNone(d) THEN Err(<<"InvalidData">>) ELSE Ok

\* the state payload part of restore_<state>, after the shared payload was dealt with
restore_state_d(x, rid, shared_d, state_d_enc) ==
    IF IsSome(x.associated_data_type)
    THEN IF ~required(state_d_enc).ok THEN Failed(required(state_d_enc).err)
         ELSE LET state_d == decode(Unwrap(x.associated_data_type), Unwrap(state_d_enc)) IN
              IF ~decoded(state_d).ok THEN Failed(decoded(state_d).err)
              ELSE Restored(wrapped_new(x.name, rid, state_d, shared_d))
    ELSE IF ~undeclared(state_d_enc).ok THEN Failed(undeclared(state_d_enc).err)
         ELSE Restored(wrapped_new(x.name, rid, None, shared_d))

\* mutant: the state payload is checked before the shared payload
restore_fn_shared_state_first(shared_dt, x, rid, shared_d_enc, state_d_enc) ==
    LET state_part == restore_state_d(x, rid, None, state_d_enc) IN
    IF ~state_part.res.ok THEN state_part
    ELSE IF ~required(shared_d_enc).ok THEN Failed(required(shared_d_enc).err)
    ELSE LET shared_d == decode(shared_dt, Unwrap(shared_d_enc)) IN
         IF ~decoded(shared_d).ok THEN Failed(decoded(shared_d).err)
         ELSE restore_state_d(x, rid, shared_d, state_d_enc)

\* async fn restore_<state>(observer, id, shared_d_enc, state_d_enc), machine with shared data
restore_fn_shared(shared_dt, x, rid, shared_d_enc, state_d_enc) ==
    IF ~required(shared_d_enc).ok THEN Failed(required(shared_d_enc).err)
    ELSE LET shared_d == decode(shared_dt, Unwrap(shared_d_enc)) IN
         IF ~decoded(shared_d).ok THEN Failed(decoded(shared_d).err)
         ELSE restore_state_d(x, rid, shared_d, state_d_enc)

\* async fn restore_<state>(observer, id, shared_d_enc, state_d_enc), machine without shared data
\* (the source writes the bound of these two shapes as `T: Observer + Send`, without the
\* context parameter of Observer<S>; the body is modelled as written)
restore_fn_plain(x, rid, shared_d_enc, state_d_enc) ==
    IF ~undeclared(shared_d_enc).ok THEN Failed(undeclared(shared_d_enc).err)
    ELSE restore_state_d(x, rid, None, state_d_enc)

restore_fns(m, x, rid, shared_d_enc, state_d_enc) ==
    IF IsSome(m.shared_data_type)
    THEN restore_fn_shared(Unwrap(m.shared_data_type), x, rid, shared_d_enc, state_d_enc)
    ELSE restore_fn_plain(x, rid, shared_d_enc, state_d_enc)

\* stringify!(#state_name) => #fn_name(observer, id, data, state_data).await, one arm per state
restore_arms(m) ==
    [i \in DOMAIN m.states |->
        [state |-> m.states[i], pattern |-> m.states[i].name,
         fn_name |-> <<"restore", to_case_snake(m.states[i].name)>>]]

\* mutant: the state name is matched without regard to case
match_arm_ignoring_case(m, state_str) ==
    LET arms == restore_arms(m)
        fold(str) == IF \E i \in DOMAIN arms : arms[i].pattern = str THEN to_case_snake(str) ELSE str
        hits == {i \in DOMAIN arms : fold(arms[i].pattern) = fold(state_str)}
    IN  IF hits = {} THEN None
        ELSE Some(arms[CHOOSE i \in hits : \A j \in hits : i <= j])

\* match state_str { arms..., _ => ... }: the first arm whose literal equals the string
match_arm(m, state_str) ==
    LET arms == restore_arms(m)
        hits == {i \in DOMAIN arms : arms[i].pattern = state_str}
    IN  IF hits = {} THEN None
        ELSE Some(arms[CHOOSE i \in hits : \A j \in hits : i <= j])

\* pub async fn restore(observer, id, state_string, data, state_data)
restore(m, rid, state_string, data, state_data) ==
    LET arm == match_arm(m, state_string)
    IN  IF IsNone(arm) THEN Failed(<<"InvalidState">>)
        ELSE restore_fns(m, Unwrap(arm).state, rid, data, state_data)

\* the Option<Encoded> values a caller or a store may supply where a value of one of
\* the types otys may be expected: nothing, the serialized form of a value of such a
\* type, or a JSON value ("Bad") that is the serialized form of none of them
EncodedInputs(otys) ==
    {None, Some(Encoded_Json(Json("Bad", 0)))}
        \cup {Some(Encoded_Json(Json(Unwrap(oty), n))) : oty \in {o \in otys : IsSome(o)}, n \in Vals}

SharedInputs(m) == EncodedInputs({m.shared_data_type})
StateInputs(m) == EncodedInputs({x.associated_data_type : x \in StateDefs(m)})

\* the state-name strings a caller or a store may supply: the declared names, and
\* one that differs from a declared name in case only
NameInputs(m) == {x.name : x \in StateDefs(m)} \cup {to_case_snake(m.states[1].name)}

\* the origin of what restore produced
Restoring(r) ==
    IF IsSome(r.inst)
    THEN Some([data |-> Unwrap(r.inst).data, id |-> Unwrap(r.inst).id, by |-> "restore"])
    ELSE None

\* mutant: a restored instance enters its state through the observer
Materialize_entering(s, r, res) ==
    /\ Return(s, res, r.inst)
    /\ origin' = [origin EXCEPT ![s] = Restoring(r)]
    /\ IF IsSome(r.inst)
       THEN Invoke(s, [id |-> Unwrap(r.inst).id, hook |-> enter_fn_name(Unwrap(r.inst).marker), ret |-> Ok])
       ELSE UNCHANGED <<hist, calllog>>

\* restore_<state> hands back Ok(#wrapped_type::#state_name(...)) or the error: the
\* instance is materialized as it is, no observer hook is awaited
Materialize(s, r, res) ==
    /\ Return(s, res, r.inst)
    /\ origin' = [origin EXCEPT ![s] = Restoring(r)]
    /\ UNCHANGED hist
    /\ calllog' = [calllog EXCEPT ![s] = <<>>]

fn_name_of(arm) == IF IsSome(arm) THEN Some(Unwrap(arm).fn_name) ELSE None

\* restore(observer, id, state_string, data, state_data): nothing is awaited, the call is one step
RestoreCall(s) ==
    \E rid \in Ids, state_string \in NameInputs(machine) :
    \E data \in SharedInputs(machine), state_data \in StateInputs(machine) :
        LET r == restore(machine, rid, state_string, data, state_data)
        IN  /\ pc[s] = "idle"
            /\ ncalls[s] < MaxCalls
            /\ ncalls' = [ncalls EXCEPT ![s] = @ + 1]
            /\ ncreates[s] < MaxCreates
            /\ ncreates' = [ncreates EXCEPT ![s] = @ + 1]
            /\ call' = [call EXCEPT ![s] =
                        [data |-> data, id |-> rid, op |-> "restore",
                         state_data |-> state_data, fn_name |-> fn_name_of(match_arm(machine, state_string)),
                         state_string |-> state_string]]
            /\ rlog' = [rlog EXCEPT ![s] = <<>>]
            /\ Materialize(s, r, r.res)
            /\ UNCHANGED <<machine, observer>>

\* retrieve(ctx, retriever, id)
RetrieveCall(s) ==
    \E rid \in Ids :
        Begin(s, [data |-> None, id |-> rid, op |-> "retrieve", state_data |-> None,
                  fn_name |-> None, state_string |-> ""],
              "on_retrieve", None)

\* what Retriever::on_retrieve may answer: an error, or Ok((String, Option<Encoded>, Option<Encoded>))
OnRetrieveOutcomes(m) ==
    {[ok |-> FALSE, err |-> e, data |-> None, state_data |-> None, state_string |-> ""] : e \in Errors}
        \cup {[ok |-> TRUE, err |-> <<>>, data |-> d, state_data |-> sd, state_string |-> n]
              : n \in NameInputs(m), d \in SharedInputs(m), sd \in StateInputs(m)}

\* mutant: a failure of restore is reported the way a failure of the store is
OnRetrieve_one_error_kind(s) ==
    /\ pc[s] = "on_retrieve"
    /\ \E got \in OnRetrieveOutcomes(machine) :
        LET c == call[s]
            r == restore(machine, c.id, got.state_string, got.data, got.state_data)
        IN  /\ rlog' = [rlog EXCEPT ![s] = Append(@, [id |-> c.id, ret |-> got])]
            /\ IF ~got.ok
               THEN /\ Return(s, Err(<<"RetrieverError", got.err>>), None)
                    /\ UNCHANGED <<call, calllog, hist, origin>>
               ELSE /\ call' = [call EXCEPT ![s] =
                                [c EXCEPT !.state_string = got.state_string,
                                          !.data = got.data, !.state_data = got.state_data,
                                          !.fn_name = fn_name_of(match_arm(machine, got.state_string))]]
                    /\ Materialize(s, r, IF r.res.ok THEN Ok ELSE Err(<<"RetrieverError", r.res.err>>))
    /\ UNCHANGED <<machine, observer, ncalls, ncreates>>

\* retriever.on_retrieve(ctx, id_str).await.map_err(|e| RetrieveError::RetrieverError(e))?;
\* restore(retriever, id, state_string, maybe_data, maybe_state_data).await.map_err(|e| RetrieveError::RestoreError(e))
OnRetrieve(s) ==
    /\ pc[s] = "on_retrieve"
    /\ \E got \in OnRetrieveOutcomes(machine) :
        LET c == call[s]
            r == restore(machine, c.id, got.state_string, got.data, got.state_data)
        IN  /\ rlog' = [rlog EXCEPT ![s] = Append(@, [id |-> c.id, ret |-> got])]
            /\ IF ~got.ok
               THEN /\ Return(s, Err(<<"RetrieverError", got.err>>), None)
                    /\ UNCHANGED <<call, calllog, hist, origin>>
               ELSE /\ call' = [call EXCEPT ![s] =
                                [c EXCEPT !.state_string = got.state_string,
                                          !.data = got.data, !.state_data = got.state_data,
                                          !.fn_name = fn_name_of(match_arm(machine, got.state_string))]]
                    /\ Materialize(s, r, IF r.res.ok THEN Ok ELSE Err(<<"RestoreError", r.res.err>>))
    /\ UNCHANGED <<machine, observer, ncalls, ncreates>>

Next ==
    \E s \in Solo :
        \/ InitCall(s)
        \/ OnInit(s)
        \/ InitEnter(s)
        \/ CallEvent(s)
        \/ OnTransition(s)
        \/ OnExit(s)
        \/ OnEnter(s)
        \/ RestoreCall(s)
        \/ RetrieveCall(s)
        \/ OnRetrieve(s)

Spec == Init /\ [][Next]_vars

(* ------------------------------------------------------------------ *)
(* Two callers, each with its own instance, observer and context       *)
(* ------------------------------------------------------------------ *)
\* every caller brings its own observer
InitPair ==
    /\ machine \in Machines
    /\ observer \in [Slots -> Observers]
    /\ live = [s \in Slots |-> None]
    /\ pc = [s \in Slots |-> "idle"]
    /\ call = [s \in Slots |-> NoCall]
    /\ calllog = [s \in Slots |-> <<>>]
    /\ hist = [s \in Slots |-> <<>>]
    /\ rlog = [s \in Slots |-> <<>>]
    /\ result = [s \in Slots |-> None]
    /\ ncalls = [s \in Slots |-> 0]
    /\ ncreates = [s \in Slots |-> 0]
    /\ origin = [s \in Slots |-> None]

\* the data arguments of the call caller s begins are its own: every value it passes
\* is the one numbered s
OwnArguments(s) ==
    /\ call'[s].op = "init" =>
          (IsSome(call'[s].state_data) => Unwrap(call'[s].state_data).n = s)
    /\ IsSome(call'[s].data) => Unwrap(call'[s].data).n = s

\* each caller creates one instance with init and then drives it with event operations;
\* the steps of the two callers interleave freely, one awaited hook at a time
NextPair ==
    \E s \in Slots :
        \/ ncalls[s] = 0 /\ InitCall(s) /\ OwnArguments(s)
        \/ OnInit(s)
        \/ InitEnter(s)
        \/ CallEvent(s) /\ OwnArguments(s)
        \/ OnTransition(s)
        \/ OnExit(s)
        \/ OnEnter(s)

SpecPair == InitPair /\ [][NextPair]_vars
(* ------------------------------------------------------------------ *)
(* Properties                                                          *)
(* ------------------------------------------------------------------ *)
\* the call of slot s has returned
Returned(s, op) == call[s].op = op /\ IsSome(result[s])
Res(s) == Unwrap(result[s])
Succeeded(s, op) == Returned(s, op) /\ Res(s).ok
HookNames(s) == [k \in DOMAIN calllog[s] |-> calllog[s][k].hook]
AllHooksOk(s) == \A k \in DOMAIN calllog[s] : calllog[s][k].ret.ok

\* the declaration of the state called name
StateDef(m, name) == CHOOSE x \in StateDefs(m) : x.name = name
\* the edges declared for the state called name, as <<event, target>>
DeclaredEdges(m, name) ==
    {<<x.transitions[k].event, x.transitions[k].next_state>>
        : k \in DOMAIN StateDef(m, name).transitions, x \in {StateDef(m, name)}}
\* the event operations that exist on the type of an instance
Methods(m, inst) == {<<i.event, i.next>> : i \in {j \in TransitionImpls(m) : j.self = inst.marker}}

\* C1: in every successful transition call the observer hooks are invoked in the order
\* on_transition, on_exit_<source>, on_enter_<target>, each once, and the new instance
\* exists only after all three returned Ok.
C1_HookOrder ==
    \A s \in Slots : call[s].op = "transition" =>
        /\ Succeeded(s, "transition") =>
              HookNames(s) = << <<"on_transition">>, exit_fn_name(call[s].state),
                                enter_fn_name(call[s].next) >>
        /\ IsSome(live[s]) => Len(calllog[s]) = 3 /\ AllHooksOk(s)

\* a self-loop (Open --hold--> Open) was taken successfully
C1_Witness ==
    /\ machine = Door
    /\ Succeeded(1, "transition") /\ call[1].event = "hold" /\ IsSome(live[1])

\* C2: the event operations available on an instance are exactly the events declared
\* for its current state, an operation that was invoked was declared for the state of
\* the instance it was invoked on, and a successful one yields the declared target.
C2_OnlyDeclaredEvents ==
    \A s \in Slots :
        /\ IsSome(live[s]) =>
              Methods(machine, Unwrap(live[s])) = DeclaredEdges(machine, Unwrap(live[s]).state.struct)
        /\ call[s].op = "transition" =>
              <<call[s].event, call[s].next>> \in DeclaredEdges(machine, call[s].self.state.struct)
        /\ Succeeded(s, "transition") =>
              /\ Unwrap(live[s]).marker = call[s].next
              /\ Unwrap(live[s]).state.struct = call[s].next

\* an instance in a state with two declared events, and one in a state with none
C2_Witness ==
    /\ machine = Door
    /\ Succeeded(1, "transition") /\ call[1].event = "lock"
    /\ Unwrap(live[1]).marker = "Locked"
    /\ Cardinality(Methods(machine, call[1].self)) = 2

\* the answer of on_init in an init call that has returned
OnInitRet(s) == calllog[s][1].ret
IsEmptyId(s) == ~Res(s).ok /\ Res(s).err = <<"EmptyId">>

\* C3 (as claimed): init fails with EmptyId exactly when both the caller-supplied id and
\* the id returned by on_init are absent.
C3_Original ==
    \A s \in Slots : Returned(s, "init") =>
        /\ (IsSome(call[s].id) \/ IsSome(OnInitRet(s).id)) => ~IsEmptyId(s)
        /\ (OnInitRet(s).ok /\ IsNone(call[s].id) /\ IsNone(OnInitRet(s).id)) => IsEmptyId(s)

\* C3 (amended): init fails with EmptyId exactly when on_init returns Ok without an id,
\* whether or not the caller supplied one.
C3_EmptyId ==
    \A s \in Slots : Returned(s, "init") =>
        (IsEmptyId(s) <=> (OnInitRet(s).ok /\ IsNone(OnInitRet(s).id)))

\* the caller supplied an id, on_init returned none, and init failed with EmptyId
C3_Witness ==
    /\ Returned(1, "init") /\ IsSome(call[1].id)
    /\ OnInitRet(1).ok /\ IsNone(OnInitRet(1).id) /\ IsEmptyId(1)

\* C4 (as claimed): after a successful init, id() is the caller-supplied id when one
\* was supplied, and the id on_init returned otherwise.
C4_Original ==
    \A s \in Slots : Succeeded(s, "init") =>
        id(Unwrap(live[s])) = IF IsSome(call[s].id) THEN Unwrap(call[s].id)
                              ELSE Unwrap(OnInitRet(s).id)

\* C4 (amended): after a successful init, id() is the id on_init returned, also when
\* the caller supplied a different one.
C4_IdFromOnInit ==
    \A s \in Slots : Succeeded(s, "init") =>
        /\ IsSome(live[s])
        /\ OnInitRet(s).id = Some(id(Unwrap(live[s])))

\* the caller supplied "", on_init returned "o1", and id() is "o1"
C4_Witness ==
    /\ Succeeded(1, "init") /\ call[1].id = Some("")
    /\ OnInitRet(1).id = Some("o1") /\ id(Unwrap(live[1])) = "o1"
\* a restore_<state> procedure ran in the call of slot s (directly or through retrieve)
RestoreRan(s) ==
    /\ call[s].op \in {"restore", "retrieve"} /\ IsSome(result[s]) /\ IsSome(call[s].fn_name)
\* restore was invoked in the call of slot s (directly, or by retrieve after the store answered)
RestoreInvoked(s) ==
    \/ Returned(s, "restore")
    \/ Returned(s, "retrieve") /\ (Res(s).ok \/ Res(s).err[1] = "RestoreError")
\* what restore returned in that call
RestoreOutcome(s) ==
    IF call[s].op = "restore" \/ Res(s).ok THEN Res(s) ELSE Err(Res(s).err[2])
FailsWith(s, e) == ~RestoreOutcome(s).ok /\ RestoreOutcome(s).err = <<e>>

SharedTy == machine.shared_data_type
StateTy(s) == StateDef(machine, call[s].state_string).associated_data_type
\* the payload enc, supplied for the declared type oty, has the form of that type
Decodes(oty, enc) == IsSome(oty) /\ IsSome(enc) /\ Unwrap(enc).Json.shape = Unwrap(oty)
Malformed(oty, enc) == IsSome(oty) /\ IsSome(enc) /\ Unwrap(enc).Json.shape /= Unwrap(oty)
Undeclared(oty, enc) == IsNone(oty) /\ IsSome(enc)
Missing(oty, enc) == IsSome(oty) /\ IsNone(enc)
\* the payload is what the declaration asks for: decodable if declared, absent if not
Fits(oty, enc) == IF IsSome(oty) THEN Decodes(oty, enc) ELSE IsNone(enc)
\* the value a fitting payload stands for
Expected(oty, enc) == IF IsSome(oty) THEN Some(Value(Unwrap(oty), Unwrap(enc).Json.n)) ELSE None

\* C5 (as claimed): restore_<state> fails with EmptyData whenever a required payload is
\* not supplied, whatever the other payload is.
C5_Original ==
    \A s \in Slots : RestoreRan(s) =>
        ((Missing(SharedTy, call[s].data) \/ Missing(StateTy(s), call[s].state_data))
            => FailsWith(s, "EmptyData"))

\* C5 (amended): restore_<state> fails with EmptyData whenever the required shared
\* payload is not supplied, and whenever the required state payload is not supplied
\* and the shared payload is as declared (decodable if declared, absent if not).
C5_EmptyData ==
    \A s \in Slots : RestoreRan(s) =>
        /\ Missing(SharedTy, call[s].data) => FailsWith(s, "EmptyData")
        /\ (Missing(StateTy(s), call[s].state_data) /\ Fits(SharedTy, call[s].data))
              => FailsWith(s, "EmptyData")

\* restore of Paid with a good Cart and no Receipt failed with EmptyData
C5_Witness ==
    /\ machine = Order /\ RestoreRan(1) /\ call[1].state_string = "Paid"
    /\ Decodes(SharedTy, call[1].data) /\ IsNone(call[1].state_data)
    /\ FailsWith(1, "EmptyData")

\* C6 (as claimed): restore_<state> fails with UnexpectedData whenever a payload is
\* supplied that is not declared, whatever the other payload is.
C6_Original ==
    \A s \in Slots : RestoreRan(s) =>
        ((Undeclared(SharedTy, call[s].data) \/ Undeclared(StateTy(s), call[s].state_data))
            => FailsWith(s, "UnexpectedData"))

\* C6 (amended): restore_<state> fails with UnexpectedData whenever shared data is
\* supplied to a machine that declares none, and whenever state data is supplied for
\* a dataless state and the shared payload is as declared.
C6_UnexpectedData ==
    \A s \in Slots : RestoreRan(s) =>
        /\ Undeclared(SharedTy, call[s].data) => FailsWith(s, "UnexpectedData")
        /\ (Undeclared(StateTy(s), call[s].state_data) /\ Fits(SharedTy, call[s].data))
              => FailsWith(s, "UnexpectedData")

\* restore of Shipped (dataless) with a good Cart and a state payload failed with UnexpectedData
C6_Witness ==
    /\ machine = Order /\ RestoreRan(1) /\ call[1].state_string = "Shipped"
    /\ Decodes(SharedTy, call[1].data) /\ IsSome(call[1].state_data)
    /\ FailsWith(1, "UnexpectedData")

\* C7 (as claimed): restore_<state> fails with InvalidData whenever a payload supplied
\* for a declared type does not decode, whatever the other payload is.
C7_Original ==
    \A s \in Slots : RestoreRan(s) =>
        ((Malformed(SharedTy, call[s].data) \/ Malformed(StateTy(s), call[s].state_data))
            => FailsWith(s, "InvalidData"))

\* C7 (amended): restore_<state> fails with InvalidData whenever the shared payload
\* supplied does not decode, and whenever the state payload supplied does not decode
\* and the shared payload is as declared.
C7_InvalidData ==
    \A s \in Slots : RestoreRan(s) =>
        /\ Malformed(SharedTy, call[s].data) => FailsWith(s, "InvalidData")
        /\ (Malformed(StateTy(s), call[s].state_data) /\ Fits(SharedTy, call[s].data))
              => FailsWith(s, "InvalidData")

\* restore of Open (expects a Who) with a Key payload failed with InvalidData
C7_Witness ==
    /\ machine = Door /\ RestoreRan(1) /\ call[1].state_string = "Open"
    /\ IsNone(call[1].data) /\ call[1].state_data = Some(Encoded_Json(Json("Key", 2)))
    /\ FailsWith(1, "InvalidData")

\* C8: restore of a declared state succeeds exactly when each declared payload is
\* supplied and decodes and no undeclared payload is supplied; the result is then the
\* variant of the named state, with the id passed in and the decoded payloads as data.
C8_RestoreSucceeds ==
    \A s \in Slots : RestoreRan(s) =>
        /\ RestoreOutcome(s).ok <=>
              (Fits(SharedTy, call[s].data) /\ Fits(StateTy(s), call[s].state_data))
        /\ IsSome(live[s]) <=> RestoreOutcome(s).ok
        /\ RestoreOutcome(s).ok =>
              LET w == Unwrap(live[s]) IN
              /\ w.variant = Some(call[s].state_string)
              /\ w.marker = call[s].state_string
              /\ w.state.struct = call[s].state_string
              /\ id(w) = call[s].id
              /\ w.data = Expected(SharedTy, call[s].data)
              /\ w.state.data = Expected(StateTy(s), call[s].state_data)

\* Paid was restored from a Cart and a Receipt of different content
C8_Witness ==
    /\ machine = Order /\ Succeeded(1, "restore") /\ call[1].state_string = "Paid"
    /\ call[1].id = "o1"
    /\ Unwrap(live[1]).data = Some(Value("Cart", 2))
    /\ Unwrap(live[1]).state.data = Some(Value("Receipt", 1))

DeclaredNames(m) == {x.name : x \in StateDefs(m)}

\* C9: restore fails with InvalidState exactly when the state-name string equals no
\* declared state name (case matters), whatever the payloads are; a declared name is
\* handled by the restore procedure of that state and of no other.
C9_InvalidState ==
    \A s \in Slots : RestoreInvoked(s) =>
        /\ FailsWith(s, "InvalidState") <=> call[s].state_string \notin DeclaredNames(machine)
        /\ call[s].state_string \in DeclaredNames(machine) =>
              call[s].fn_name = Some(<<"restore", to_case_snake(call[s].state_string)>>)
        /\ call[s].state_string \notin DeclaredNames(machine) => IsNone(call[s].fn_name)

\* "created" with the payloads Created asks for is not the declared name "Created"
C9_Witness ==
    /\ machine = Order /\ Returned(1, "restore") /\ call[1].state_string = "created"
    /\ Decodes(SharedTy, call[1].data) /\ IsNone(call[1].state_data)
    /\ FailsWith(1, "InvalidState")

\* C10: no step of a restore or retrieve call invokes an observer hook: the hook
\* history of the slot is unchanged by it, whether the call succeeds or fails.
C10_RestoreBypassesHooks ==
    [][\A s \in Slots : call'[s].op \in {"restore", "retrieve"} =>
            hist'[s] = hist[s] /\ calllog'[s] = <<>>]_vars

\* after hooks had been recorded on the slot, a retrieve call materialized an instance
C10_Witness ==
    /\ Len(hist[1]) > 0 /\ calllog[1] = <<>>
    /\ Succeeded(1, "retrieve") /\ IsSome(live[1])
\* the observable content of an instance: its state, id(), data() and state data
Observable(inst) == [data |-> inst.data, id |-> id(inst), state |-> inst.marker, state_data |-> inst.state]

\* what restore gives for the stored form of an instance: its id, the string of its
\* state tag and the encodings of its shared data and state data
RestoredFrom(inst) ==
    restore(machine, id(inst), State_to_string(machine, inst.marker),
            encode(inst.data), encode(inst.state.data))

C12_CarriesIdAndData ==
    \A s \in Slots :
        /\ (IsSome(live[s]) /\ IsSome(origin[s])) =>
                /\ id(Unwrap(live[s])) = Unwrap(origin[s]).id
                /\ Unwrap(live[s]).data = Unwrap(origin[s]).data
        /\ call[s].op = "transition" =>
                /\ \A k \in DOMAIN calllog[s] : calllog[s][k].id = id(call[s].self)
                /\ IsSome(origin[s]) => id(call[s].self) = Unwrap(origin[s]).id
        /\ Succeeded(s, "transition") =>
                /\ id(Unwrap(live[s])) = id(call[s].self)
                /\ Unwrap(live[s]).state.data = call[s].data

\* a Task created by init and edited twice: the second edit replaces the Body, the Meta stays
C12_Witness ==
    /\ machine = Task /\ Succeeded(1, "transition") /\ call[1].event = "edit"
    /\ Len(hist[1]) = 8
    /\ call[1].self.state.data = Some(Value("Body", 1))
    /\ Unwrap(live[1]).state.data = Some(Value("Body", 2))
    /\ Unwrap(origin[1]) = [data |-> Some(Value("Meta", 1)), id |-> "o1", by |-> "init"]
    /\ Len(calllog[1]) = 3
\* the hooks an event operation invokes when none fails
TransitionHooks(c) == << <<"on_transition">>, exit_fn_name(c.state), enter_fn_name(c.next) >>

\* C13: a hook that fails during a transition ends the call: it is the last hook of the
\* call, the call returns TransitionError::ObserverError with that hook's error, the
\* hooks before it were each invoked once, in order, and answered Ok, their record stays,
\* and no instance is produced.
C13_HookFailureAborts ==
    \A s \in Slots : call[s].op = "transition" =>
        /\ \A k \in DOMAIN calllog[s] :
              ~calllog[s][k].ret.ok =>
                  /\ k = Len(calllog[s])
                  /\ Returned(s, "transition")
                  /\ Res(s) = Err(<<"ObserverError", calllog[s][k].ret.err>>)
        /\ (Returned(s, "transition") /\ ~Res(s).ok) =>
              /\ Len(calllog[s]) \in 1..3
              /\ ~calllog[s][Len(calllog[s])].ret.ok
              /\ HookNames(s) = SubSeq(TransitionHooks(call[s]), 1, Len(calllog[s]))
              /\ Len(hist[s]) >= Len(calllog[s])
              /\ SubSeq(hist[s], Len(hist[s]) - Len(calllog[s]) + 1, Len(hist[s])) = HookNames(s)
              /\ IsNone(live[s])

\* pay on an Order: on_transition answered Ok, on_exit_created failed with e2
C13_Witness ==
    /\ machine = Order /\ Returned(1, "transition") /\ call[1].event = "pay"
    /\ Res(1) = Err(<<"ObserverError", "e2">>)
    /\ HookNames(1) = << <<"on_transition">>, exit_fn_name("Created") >>
    /\ calllog[1][1].ret.ok
    /\ IsNone(live[1])
\* C14: every constructed instance (by init, a transition, restore or retrieve) has a
\* non-empty identifier: no reachable instance has id() equal to the empty string.
C14_NonEmptyId ==
    \A s \in Slots : IsSome(live[s]) => id(Unwrap(live[s])) /= ""

\* init was given Some(""), on_init handed it back as the default on_init does, and the
\* instance that init returned has id() = ""
C14_EmptyIdInstance ==
    /\ Succeeded(1, "init") /\ call[1].id = Some("") /\ OnInitRet(1).id = call[1].id
    /\ id(Unwrap(live[1])) = ""
\* C15: in every instance, however produced, the state marker (and the WrappedMachine
\* variant, when the instance is wrapped) is the state of the per-state value it holds, and
\* the per-state value carries a payload exactly when its state declares a data type
\* (a value of that type).
C15_MarkerMatchesState ==
    \A s \in Slots : IsSome(live[s]) =>
        LET inst == Unwrap(live[s]) IN
        /\ inst.marker \in DeclaredNames(machine)
        /\ inst.state.struct = inst.marker
        /\ inst.variant \in {None, Some(inst.marker)}
        /\ IsSome(inst.variant) <=> call[s].op \in {"restore", "retrieve"}
        /\ IsSome(inst.state.data) <=> IsSome(state_data_types(machine, inst.marker))
        /\ inst.state.data \in ArgsOf(state_data_types(machine, inst.marker))

\* a Door retrieved in Locked, wrapped in the Locked variant and holding its Key
C15_Witness ==
    /\ machine = Door /\ Succeeded(1, "retrieve")
    /\ Unwrap(live[1]).variant = Some("Locked")
    /\ Unwrap(live[1]).state = state_new("Locked", Some(Value("Key", 1)))
\* what restore gives for what on_retrieve answered in the retrieve call of slot s
Forwarded(s) ==
    restore(machine, call[s].id, rlog[s][1].ret.state_string, rlog[s][1].ret.data,
            rlog[s][1].ret.state_data)

\* C16: retrieve calls on_retrieve exactly once, with the id it was given, and forwards
\* the answer to restore with the same id: it returns RetrieverError(e) exactly when
\* on_retrieve failed with e (nothing is forwarded then), RestoreError(r) exactly when
\* on_retrieve succeeded and restore failed with r, and otherwise the instance restore made.
C16_RetrieveComposition ==
    \A s \in Slots : call[s].op = "retrieve" =>
        /\ pc[s] = "on_retrieve" => rlog[s] = <<>> /\ IsNone(result[s])
        /\ Returned(s, "retrieve") =>
            /\ Len(rlog[s]) = 1
            /\ rlog[s][1].id = call[s].id
            /\ IF ~rlog[s][1].ret.ok
               THEN /\ Res(s) = Err(<<"RetrieverError", rlog[s][1].ret.err>>)
                    /\ call[s].state_string = "" /\ IsNone(call[s].fn_name)
                    /\ IsNone(live[s])
               ELSE /\ call[s].state_string = rlog[s][1].ret.state_string
                    /\ live[s] = Forwarded(s).inst
                    /\ IF Forwarded(s).res.ok THEN Res(s) = Ok
                       ELSE Res(s) = Err(<<"RestoreError", Forwarded(s).res.err>>)

\* the store answered with a state nobody declared: retrieve fails with
\* RestoreError(InvalidState), not with RetrieverError
C16_Witness ==
    /\ Returned(1, "retrieve") /\ Len(rlog[1]) = 1 /\ rlog[1][1].ret.ok
    /\ call[1].id = "o1"
    /\ Res(1) = Err(<<"RestoreError", <<"InvalidState">>>>)
\* C17: with an observer that keeps every default hook body, on_init hands back the id it
\* was given and every other hook answers Ok: init succeeds exactly when the caller
\* supplies an id, id() is then that id, and every transition call succeeds.
C17_DefaultObserver ==
    \A s \in Slots : observer[s] = "default" =>
        /\ \A k \in DOMAIN calllog[s] :
              /\ calllog[s][k].ret.ok
              /\ calllog[s][k].hook = <<"on_init">> => calllog[s][k].ret.id = call[s].id
        /\ Returned(s, "init") =>
              /\ Res(s).ok <=> IsSome(call[s].id)
              /\ Res(s).ok => Some(id(Unwrap(live[s]))) = call[s].id
              /\ ~Res(s).ok => Res(s) = Err(<<"EmptyId">>)
        /\ Returned(s, "transition") => Res(s).ok /\ IsSome(live[s])

\* a Door made by init with id "o1" and the default observer, opened and then held open
C17_Witness ==
    /\ machine = Door /\ observer[1] = "default"
    /\ Succeeded(1, "transition") /\ call[1].event = "hold"
    /\ origin[1] = Some([data |-> None, id |-> "o1", by |-> "init"])
    /\ hist[1] = << <<"on_init">>, enter_fn_name("Closed"),
                    <<"on_transition">>, exit_fn_name("Closed"), enter_fn_name("Open"),
                    <<"on_transition">>, exit_fn_name("Open"), enter_fn_name("Open") >>
\* C18: a transition call consumes the instance it is invoked on, whatever its outcome:
\* while the call runs the caller holds no instance, after a failed call neither the source
\* nor a target exists, after a successful call exactly the target exists, and so at most
\* one live instance descends from an init or restore result.
C18_TransitionConsumes ==
    \A s \in Slots :
        /\ (call[s].op = "transition" /\ pc[s] /= "idle") =>
              IsNone(live[s]) /\ IsSome(origin[s])
        /\ (Returned(s, "transition") /\ ~Res(s).ok) =>
              IsNone(live[s]) /\ IsNone(origin[s])
        /\ Succeeded(s, "transition") =>
              /\ IsSome(live[s]) /\ IsSome(origin[s])
              /\ Unwrap(live[s]).marker = call[s].next
              /\ IsNone(Unwrap(live[s]).variant)
        /\ pc[s] = "idle" => (IsSome(live[s]) <=> IsSome(origin[s]))

\* a restored Task lost to a failed submit: on_enter_done failed and nothing is left
C18_Witness ==
    /\ machine = Task /\ Returned(1, "transition") /\ call[1].event = "submit"
    /\ IsSome(call[1].self.variant)
    /\ ~Res(1).ok /\ Len(calllog[1]) = 3
    /\ IsNone(live[1]) /\ IsNone(origin[1])
\* the hooks init invokes when none fails
InitHooks(c) == << <<"on_init">>, enter_fn_name(c.state) >>

\* C19: init runs its steps in sequence: on_init first (with the caller's id), then
\* on_enter_<initial state> with the id on_init returned and `from` absent, then the
\* instance is constructed; on_enter is not invoked when on_init failed or returned no id;
\* a failing hook makes init return InitError::ObserverError with that hook's error, and
\* no instance is constructed.
C19_InitSequence ==
    \A s \in Slots : call[s].op = "init" =>
        /\ Len(calllog[s]) <= 2
        /\ HookNames(s) = SubSeq(InitHooks(call[s]), 1, Len(calllog[s]))
        /\ Len(calllog[s]) >= 1 =>
              /\ calllog[s][1].id = call[s].id
              /\ calllog[s][1].to = call[s].state
        /\ Len(calllog[s]) = 2 =>
              /\ calllog[s][1].ret.ok
              /\ calllog[s][1].ret.id = Some(calllog[s][2].id)
              /\ calllog[s][2].from = FromNone
        /\ \A k \in DOMAIN calllog[s] :
              ~calllog[s][k].ret.ok =>
                  /\ k = Len(calllog[s])
                  /\ Returned(s, "init")
                  /\ Res(s) = Err(<<"ObserverError", calllog[s][k].ret.err>>)
        /\ IsSome(live[s]) =>
              /\ Succeeded(s, "init")
              /\ Len(calllog[s]) = 2 /\ AllHooksOk(s)
              /\ id(Unwrap(live[s])) = calllog[s][2].id
        /\ Returned(s, "init") =>
              /\ Len(calllog[s]) >= 1
              /\ Res(s).ok <=> IsSome(live[s])
              /\ Res(s).ok <=> (Len(calllog[s]) = 2 /\ AllHooksOk(s))

\* on_init answered "o1", on_enter_created was invoked with "o1" and failed with e1:
\* init returned ObserverError(e1) and there is no instance
C19_Witness ==
    /\ machine = Order /\ Returned(1, "init")
    /\ Len(calllog[1]) = 2
    /\ calllog[1][1].ret.id = Some("o1") /\ calllog[1][1].id = None
    /\ calllog[1][2].hook = enter_fn_name("Created") /\ calllog[1][2].id = "o1"
    /\ Res(1) = Err(<<"ObserverError", "e1">>)
    /\ IsNone(live[1])
\* the invocations of on_enter_<state> (or of on_exit_<state>) in the call of slot s
Invocations(s, kind) == {k \in DOMAIN calllog[s] : calllog[s][k].hook[1] = kind}

\* C20: every on_enter_<X> invocation reports the true predecessor: in a transition from Y
\* its `from` is the tag of Y, plain when X is not initial and present-wrapped when X is
\* flagged initial (self-loops included); `from` is absent exactly when init invokes the
\* hook; and every on_exit_<Y> invocation gets `to` equal to the declared target of the
\* edge being taken.
C20_FromAndTo ==
    \A s \in Slots :
        /\ \A k \in Invocations(s, "on_enter") :
              /\ calllog[s][k].from = FromNone <=> call[s].op = "init"
              /\ call[s].op = "transition" =>
                    /\ calllog[s][k].hook = enter_fn_name(call[s].next)
                    /\ calllog[s][k].from.tag = Some(call[s].self.marker)
                    /\ calllog[s][k].from.optional <=> call[s].next \in init_states(machine)
        /\ \A k \in Invocations(s, "on_exit") :
              /\ call[s].op = "transition"
              /\ calllog[s][k].hook = exit_fn_name(call[s].self.marker)
              /\ calllog[s][k].to = call[s].next
              /\ <<call[s].event, calllog[s][k].to>> \in DeclaredEdges(machine, call[s].self.marker)

\* edit on a Task in Draft: a self-loop on an initial state, on_enter_draft gets Some(Draft)
C20_Witness ==
    /\ machine = Task /\ Succeeded(1, "transition") /\ call[1].event = "edit"
    /\ calllog[1][3].hook = enter_fn_name("Draft")
    /\ calllog[1][3].from = FromSome("Draft")
    /\ calllog[1][2].hook = exit_fn_name("Draft") /\ calllog[1][2].to = "Draft"
\* the on_transition invocations in the call of slot s
OnTransitionAt(s) == {k \in DOMAIN calllog[s] : calllog[s][k].hook = <<"on_transition">>}
\* the state data the source instance of the call of slot s held before the transition
SourceStateData(s) == call[s].self.state.data

\* C21 (as claimed): on_transition gets from = source tag, to = target tag, the shared data
\* iff the machine declares shared data, and the source state's pre-transition state data
\* iff the source state declares associated data.
C21_Original ==
    \A s \in Slots : \A k \in OnTransitionAt(s) :
        /\ calllog[s][k].from = call[s].self.marker
        /\ calllog[s][k].to = call[s].next
        /\ IsSome(calllog[s][k].data) <=> IsSome(machine.shared_data_type)
        /\ IsSome(StateDef(machine, call[s].self.marker).associated_data_type) =>
              /\ IsSome(SourceStateData(s))
              /\ SourceStateData(s) \in {calllog[s][k].data, calllog[s][k].state_data}

\* C21 (amended): on_transition gets from = source tag, to = target tag, the instance's
\* shared data iff the machine declares shared data, and as its only state data argument
\* the new state data given to the operation, present iff the target state declares
\* associated data; what the source state held is not among its arguments.
C21_OnTransitionArgs ==
    \A s \in Slots : \A k \in OnTransitionAt(s) :
        /\ call[s].op = "transition" /\ k = 1
        /\ calllog[s][k].id = id(call[s].self)
        /\ calllog[s][k].from = call[s].self.marker
        /\ calllog[s][k].to = call[s].next
        /\ <<call[s].event, calllog[s][k].to>> \in DeclaredEdges(machine, calllog[s][k].from)
        /\ IsSome(calllog[s][k].data) <=> IsSome(machine.shared_data_type)
        /\ IsSome(calllog[s][k].data) => calllog[s][k].data = call[s].self.data
        /\ IsSome(calllog[s][k].state_data) <=>
              IsSome(StateDef(machine, call[s].next).associated_data_type)
        /\ calllog[s][k].state_data = call[s].data
        /\ IsNone(StateDef(machine, call[s].next).associated_data_type) =>
              SourceStateData(s) \notin {x \in {calllog[s][k].data, calllog[s][k].state_data} : IsSome(x)}

\* close on an Open door: the source held a Who value, the target Closed declares no data,
\* and on_transition was invoked with neither shared data nor state data
C21_Witness ==
    /\ machine = Door /\ call[1].op = "transition" /\ call[1].event = "close"
    /\ IsSome(SourceStateData(1))
    /\ Len(calllog[1]) >= 1 /\ calllog[1][1].hook = <<"on_transition">>
    /\ calllog[1][1].from = "Open" /\ calllog[1][1].to = "Closed"
    /\ IsNone(calllog[1][1].data) /\ IsNone(calllog[1][1].state_data)
\* the states reachable from the states in S along declared edges
RECURSIVE ReachableFrom(_, _)
ReachableFrom(m, S) ==
    LET T == S \cup {e[2] : e \in UNION {DeclaredEdges(m, n) : n \in S}}
    IN  IF T = S THEN S ELSE ReachableFrom(m, T)
\* the states reachable from some state flagged init
Reachable(m) == ReachableFrom(m, init_states(m))
\* the instance of slot s (held, or moved into the call in progress) descends from init
FromInit(s) == IsSome(origin[s]) /\ Unwrap(origin[s]).by = "init"

\* C22: init is only ever called on a state flagged initial; an instance that descends from
\* init (no restore or retrieve in its history) is in a state reachable from an initial state
\* along declared edges; with a machine declaring no initial state every instance comes
\* from restore or retrieve; and a successful restore or retrieve materializes the instance
\* in the declared state that was named, whether or not that state is reachable.
C22_InitOnlyInitial ==
    \A s \in Slots :
        /\ call[s].op = "init" => StateDef(machine, call[s].state).init
        /\ (FromInit(s) /\ IsSome(live[s])) => Unwrap(live[s]).marker \in Reachable(machine)
        /\ (FromInit(s) /\ call[s].op = "transition") =>
              {call[s].self.marker, call[s].next} \subseteq Reachable(machine)
        /\ init_states(machine) = {} =>
              /\ call[s].op /= "init"
              /\ IsSome(origin[s]) => Unwrap(origin[s]).by = "restore"
        /\ (RestoreRan(s) /\ RestoreOutcome(s).ok) =>
              /\ IsSome(live[s])
              /\ Unwrap(live[s]).marker = call[s].state_string
              /\ call[s].state_string \in DeclaredNames(machine)

\* a Door restored in Broken, a declared state that no initial state leads to
C22_Witness ==
    /\ machine = Door /\ Succeeded(1, "restore")
    /\ Unwrap(live[1]).marker = "Broken"
    /\ "Broken" \notin Reachable(machine)
    /\ Reachable(machine) = {"Closed", "Open", "Locked"}
\* everything that belongs to caller s: its observer, its context, its instance, its call
SlotView(s) ==
    <<observer[s], live[s], pc[s], call[s], calllog[s], hist[s], rlog[s], result[s],
      ncalls[s], ncreates[s], origin[s]>>
\* the hook invocations an event operation makes, from its own arguments alone
TransitionCalls(m, c) == <<on_transition_call(m, c), exit_call(m, c), enter_call(m, c)>>
\* the answer that ended the call of slot s when a hook failed
LastRet(s) == calllog[s][Len(calllog[s])].ret
\* a step leaves every caller but one exactly as it was
OneCallerMoves == \E s \in Slots : \A t \in Slots \ {s} : SlotView(t)' = SlotView(t)
\* what a call of slot s did and returned is what that call does when it runs alone
AsWhenAlone(s) ==
    /\ call[s].op = "transition" =>
          /\ \A k \in DOMAIN calllog[s] :
                calllog[s][k] = WithRet(TransitionCalls(machine, call[s])[k], calllog[s][k].ret)
          /\ IsSome(origin[s]) =>
                /\ id(call[s].self) = Unwrap(origin[s]).id
                /\ call[s].self.data = Unwrap(origin[s]).data
          /\ IsSome(call[s].data) => Unwrap(call[s].data).n = s
          /\ Returned(s, "transition") =>
                IF Len(calllog[s]) = 3 /\ AllHooksOk(s)
                THEN /\ Res(s) = Ok
                     /\ live[s] = Some(transition_new(machine, call[s]))
                ELSE /\ Res(s) = Err(<<"ObserverError", LastRet(s).err>>)
                     /\ IsNone(live[s])
    /\ Returned(s, "init") =>
          IF Len(calllog[s]) = 2 /\ AllHooksOk(s)
          THEN /\ Res(s) = Ok
               /\ live[s] = Some(parent_new(call[s].state, Unwrap(OnInitRet(s).id),
                                            state_new(call[s].state, call[s].state_data),
                                            call[s].data))
          ELSE /\ Res(s) = init_id(call[s].id, OnInitRet(s)).res
                  \/ Res(s) = Err(<<"ObserverError", LastRet(s).err>>)
               /\ IsNone(live[s])
    /\ IsSome(live[s]) =>
          \A d \in {Unwrap(live[s]).data, Unwrap(live[s]).state.data} :
              IsSome(d) => Unwrap(d).n = s

\* C23: two callers, each with its own instance, observer and context, interleave at every
\* hook suspension point: every step changes what belongs to one caller only, and each
\* call invokes its hooks with its own instance's id and data and returns the result, and
\* leaves the instance, that the same call yields when nothing runs in between.
C23_Interleaving ==
    /\ [](\A s \in Slots : AsWhenAlone(s))
    /\ [][OneCallerMoves]_vars

\* two Task instances with different data, both in the middle of an event operation:
\* caller 1 awaits on_exit_draft while caller 2 already awaits on_enter_done
C23_Witness ==
    /\ machine = Task
    /\ call[1].op = "transition" /\ call[2].op = "transition"
    /\ pc[1] = "on_exit" /\ pc[2] = "on_enter"
    /\ call[1].event = "edit" /\ call[2].event = "submit"
    /\ call[1].self.data = Some(Value("Meta", 1)) /\ call[2].self.data = Some(Value("Meta", 2))
    /\ IsNone(live[1]) /\ IsNone(live[2])
\* the status of the payload enc with respect to the declaration oty
PayloadStatus(oty, enc) ==
    CASE Missing(oty, enc) -> "missing"
      [] Malformed(oty, enc) -> "malformed"
      [] Undeclared(oty, enc) -> "unexpected"
      [] Fits(oty, enc) -> "fits"
\* the error restore_<state> reports for a payload of that status
ErrorFor(status) ==
    CASE status = "missing" -> <<"EmptyData">>
      [] status = "malformed" -> <<"InvalidData">>
      [] status = "unexpected" -> <<"UnexpectedData">>

\* C24: the outcome of restore_<state> is a function of what the machine and the state
\* declare and of the status of the two payloads, with the shared payload decided first:
\* if the shared payload is missing, malformed or unexpected, the error is the one for the
\* shared payload, whatever the state payload is; otherwise, if the state payload is
\* missing, malformed or unexpected, the error is the one for the state payload; otherwise
\* the restore succeeds.
C24_SharedCheckedFirst ==
    \A s \in Slots : RestoreRan(s) =>
        LET shared == PayloadStatus(SharedTy, call[s].data)
            state == PayloadStatus(StateTy(s), call[s].state_data)
        IN  /\ shared /= "fits" => RestoreOutcome(s) = Err(ErrorFor(shared))
            /\ (shared = "fits" /\ state /= "fits") => RestoreOutcome(s) = Err(ErrorFor(state))
            /\ (shared = "fits" /\ state = "fits") => RestoreOutcome(s) = Ok
            /\ IsNone(live[s]) <=> ~RestoreOutcome(s).ok

\* restore of Shipped (dataless) without the Cart and with a state payload: the missing
\* shared payload masks the unexpected state payload, the error is EmptyData
C24_Witness ==
    /\ machine = Order /\ RestoreRan(1) /\ call[1].state_string = "Shipped"
    /\ PayloadStatus(SharedTy, call[1].data) = "missing"
    /\ PayloadStatus(StateTy(1), call[1].state_data) = "unexpected"
    /\ RestoreOutcome(1) = Err(<<"EmptyData">>)
====
